---------------------------- MODULE Spec2Model ----------------------------
(***************************************************************************)
(* Model of src/azure/resource-count-azure.py: the per-subscription and    *)
(* grand-total census of Azure resources.                                  *)
(*                                                                         *)
(* The script is one sequential control thread.  Its state is the module   *)
(* level Python variables (global_totals, error_list, az_account_list, the *)
(* loop variables, sub_census, aks_counted_flag, az_resources and the      *)
(* binding of requested_order), what it has printed (stdout) and the       *)
(* external commands it has issued (calls).  The external tools (az, jq,   *)
(* wc) are the environment: every response is drawn from a finite pool.    *)
(* Strings are TLA+ strings handled character by character, so lower(),    *)
(* strip(), isdigit(), int() and decimal printing are computed.            *)
(***************************************************************************)
EXTENDS Integers, Sequences, FiniteSets, TLC

VARIABLES pc, az_account_list, acct_i, sub_census, aks_counted_flag,
          az_resources, res_i, global_totals, error_list,
          requested_order_bound, stdout, calls

vars == <<pc, az_account_list, acct_i, sub_census, aks_counted_flag,
          az_resources, res_i, global_totals, error_list,
          requested_order_bound, stdout, calls>>

---------------------------------------------------------------------------
(* Bounds of the model.                                                    *)

\* longest account list `az account list` returns in the run specification
MaxAccounts == 2
\* longest resource list `az resource list` returns in the run specification
MaxResources == 2
\* largest VM count `az vm list` returns
MaxVMs == 12
\* longest resource list in the single-subscription scan specification
MaxScanResources == 1
\* most node-pool profiles of one cluster in the resolver specification
MaxPools == 2

---------------------------------------------------------------------------
(* Strings.                                                                *)

Ch(s, i) == SubSeq(s, i, i)

UpperLetters == "ABCDEFGHIJKLMNOPQRSTUVWXYZ"
LowerLetters == "abcdefghijklmnopqrstuvwxyz"

\* the letters str.lower() changes, each with its lower-case form
LowerTable ==
    [c \in {Ch(UpperLetters, k) : k \in 1..Len(UpperLetters)} |->
        Ch(LowerLetters, CHOOSE k \in 1..Len(UpperLetters) : Ch(UpperLetters, k) = c)]

\* str.lower() on one character
LowerChar(c) == IF c \in DOMAIN LowerTable THEN LowerTable[c] ELSE c

RECURSIVE Lower(_)
\* str.lower()
Lower(s) == IF Len(s) = 0 THEN "" ELSE LowerChar(Ch(s, 1)) \o Lower(Tail(s))

\* Python's `sub in s`
Contains(s, sub) ==
    \E k \in 1..(Len(s) - Len(sub) + 1) : SubSeq(s, k, k + Len(sub) - 1) = sub

IsSpace(c) == c \in {" ", "\n", "\t", "\r"}

RECURSIVE LStrip(_)
LStrip(s) == IF Len(s) > 0 /\ IsSpace(Ch(s, 1)) THEN LStrip(Tail(s)) ELSE s

RECURSIVE RStrip(_)
RStrip(s) ==
    IF Len(s) > 0 /\ IsSpace(Ch(s, Len(s)))
    THEN RStrip(SubSeq(s, 1, Len(s) - 1)) ELSE s

\* str.strip()
Strip(s) == RStrip(LStrip(s))

Digits == "0123456789"

IsDigitChar(c) == \E k \in 1..10 : Ch(Digits, k) = c

DigitValue(c) == (CHOOSE k \in 1..10 : Ch(Digits, k) = c) - 1

\* str.isdigit(): non-empty and every character a digit
IsDigit(s) == Len(s) > 0 /\ \A k \in 1..Len(s) : IsDigitChar(Ch(s, k))

RECURSIVE DigitsValue(_)
DigitsValue(s) ==
    IF Len(s) = 0 THEN 0
    ELSE 10 * DigitsValue(SubSeq(s, 1, Len(s) - 1)) + DigitValue(Ch(s, Len(s)))

\* int(s) succeeds: surrounding whitespace, one optional sign, then digits
IntParses(s) ==
    LET t == Strip(s)
        u == IF Len(t) > 0 /\ Ch(t, 1) \in {"+", "-"} THEN Tail(t) ELSE t
    IN IsDigit(u)

\* int(s), where IntParses(s)
IntValue(s) ==
    LET t == Strip(s)
    IN IF Len(t) > 0 /\ Ch(t, 1) = "-" THEN 0 - DigitsValue(Tail(t))
       ELSE IF Len(t) > 0 /\ Ch(t, 1) = "+" THEN DigitsValue(Tail(t))
       ELSE DigitsValue(t)

RECURSIVE ToDecimal(_)
\* how wc and jq print a non-negative integer
ToDecimal(n) ==
    IF n < 10 THEN Ch(Digits, n + 1)
    ELSE ToDecimal(n \div 10) \o Ch(Digits, (n % 10) + 1)

SeqsUpTo(S, n) == UNION {[1..k -> S] : k \in 0..n}

RECURSIVE SumSeq(_)
SumSeq(s) == IF Len(s) = 0 THEN 0 ELSE Head(s) + SumSeq(Tail(s))

RECURSIVE Flatten(_)
Flatten(ss) == IF Len(ss) = 0 THEN <<>> ELSE Head(ss) \o Flatten(Tail(ss))

---------------------------------------------------------------------------
(* The program's tables.                                                   *)

VMs == "Virtual Machines (VMs)"
AKS == "Container Hosts (AKS Clusters)"
CaaS == "Container as a Service (CaaS)"
Functions == "Serverless Functions"
Buckets == "Cloud Buckets (Storage Accounts)"
PaaS == "Managed Cloud Database (PaaS)"
ACR == "Container Registries (ACR)"

vm_type == "microsoft.compute/virtualmachines"
aks_type == "microsoft.containerservice/managedclusters"
sites_type == "microsoft.web/sites"
synapse_type == "microsoft.synapse/workspaces"

RESOURCE_TO_CATEGORY ==
    (vm_type :> VMs) @@
    (aks_type :> AKS) @@
    ("microsoft.containerinstance/containergroups" :> CaaS) @@
    ("microsoft.app/containerapps" :> CaaS) @@
    ("microsoft.storage/storageaccounts" :> Buckets) @@
    ("microsoft.sql/servers" :> PaaS) @@
    ("microsoft.sql/managedinstances" :> PaaS) @@
    ("microsoft.documentdb/databaseaccounts" :> PaaS) @@
    ("microsoft.cache/redis" :> PaaS) @@
    ("microsoft.dbformysql/servers" :> PaaS) @@
    ("microsoft.dbformysql/flexibleservers" :> PaaS) @@
    ("microsoft.dbforpostgresql/servergroupsv2" :> PaaS) @@
    ("microsoft.dbforpostgresql/flexibleservers" :> PaaS) @@
    ("microsoft.dbforpostgresql/servers" :> PaaS) @@
    ("microsoft.containerregistry/registries" :> ACR)

function_kind == "functionapp"

\* the literal both sub_census and global_totals are initialised with
ZeroCensus ==
    [c \in {VMs, AKS, CaaS, Functions, Buckets, PaaS, ACR} |-> 0]

requested_order == <<VMs, AKS, CaaS, Functions, Buckets, PaaS, ACR>>

\* the three messages appended to error_list
VmListError == "Error executing 'az vm list'."
ResourceListError == "Error executing 'az resource list'."
AksCountError == "Failed to execute or parse configured AKS node count."

ErrorRecord(name, id, msg) == [name |-> name, id |-> id, msg |-> msg]

---------------------------------------------------------------------------
(* get_configured_aks_node_count: `az aks list | jq`, then the parse.      *)

\* JSON values of a node-pool profile's maxCount and count
Absent == [t |-> "absent", v |-> 0]
Null == [t |-> "null", v |-> 0]
False == [t |-> "false", v |-> 0]
Text == [t |-> "string", v |-> 0]
Num(n) == [t |-> "number", v |-> n]

\* jq: .maxCount? // .count?   (an absent key reads as null; `//` yields its
\* left side unless that is null or false)
JqAlternative(profile) ==
    IF profile.maxCount.t \in {"absent", "null", "false"}
    THEN (IF profile.count.t = "absent" THEN Null ELSE profile.count)
    ELSE profile.maxCount

\* jq: [ .[] | .agentPoolProfiles[]? | (...) ]
JqCollect(clusters) ==
    LET profiles == Flatten([k \in 1..Len(clusters) |-> clusters[k].agentPoolProfiles])
    IN [k \in 1..Len(profiles) |-> JqAlternative(profiles[k])]

\* jq -r: map(select(type == "number")) | add, as printed
JqSum(clusters) ==
    LET numbers == SelectSeq(JqCollect(clusters), LAMBDA x : x.t = "number")
    IN IF Len(numbers) = 0 THEN "null"
       ELSE ToDecimal(SumSeq([k \in 1..Len(numbers) |-> numbers[k].v]))

\* subprocess.getoutput(full_cmd).  az's stderr is dropped, so when az fails jq
\* reads nothing and prints nothing; jq's own stderr is captured, so when az
\* prints what jq cannot read, or a sum that is no natural number, that text
\* is the output
AksPipeOutput(resp) ==
    CASE resp.kind = "fail" -> ""
      [] resp.kind = "text" -> resp.text \o "\n"
      [] OTHER -> JqSum(resp.clusters) \o "\n"

\* a variant that lets int() decide what a number is, in place of isdigit()
get_configured_aks_node_count_int(resp, subscription_id, subscription_name) ==
    LET count_output == Strip(AksPipeOutput(resp))
    IN IF IntParses(count_output)
       THEN [ret |-> IntValue(count_output), errors |-> <<>>]
       ELSE IF count_output = "null" \/ count_output = ""
       THEN [ret |-> 0, errors |-> <<>>]
       ELSE [ret |-> 0,
             errors |-> <<ErrorRecord(subscription_name, subscription_id,
                                      AksCountError)>>]

\* the function's return value and the records it appends to error_list
get_configured_aks_node_count(resp, subscription_id, subscription_name) ==
    LET count_output == Strip(AksPipeOutput(resp))
    IN IF IsDigit(count_output)
       THEN [ret |-> IntValue(count_output), errors |-> <<>>]
       ELSE IF count_output = "null" \/ count_output = ""
       THEN [ret |-> 0, errors |-> <<>>]
       ELSE [ret |-> 0,
             errors |-> <<ErrorRecord(subscription_name, subscription_id,
                                      AksCountError)>>]

---------------------------------------------------------------------------
(* What the script prints.  A line is kept as a record of the values it    *)
(* interpolates; the banner lines of '#' carry none and are left out.      *)

Line(t, name, id, label, count) ==
    [t |-> t, name |-> name, id |-> id, label |-> label, count |-> count]

\* print("Processing Account: {} ({})")
ProcessingLine(name, id) == Line("processing", name, id, "", 0)
\* print("  [ERROR] Error executing 'az vm list'.")
VmErrorLine == Line("error", "", "", VmListError, 0)
\* print("  [ERROR] Error executing 'az resource list'.")
ResourceErrorLine == Line("error", "", "", ResourceListError, 0)
\* print("  Counting POTENTIAL (Max Capacity) AKS Nodes...")
CountingLine == Line("counting", "", "", "", 0)
\* print("\n--- Subscription Resource Census ---")
CensusHeaderLine == Line("census", "", "", "", 0)
\* print(f"  {category}: {count}")
CategoryLine(category, count) == Line("category", "", "", category, count)
\* print("--- GRAND TOTALS ACROSS ALL ENABLED SUBSCRIPTIONS ---")
GrandHeaderLine == Line("grand", "", "", "", 0)
\* print(f"Grand Total {category}: {global_totals[category]}")
GrandTotalLine(category, count) == Line("grand_total", "", "", category, count)
\* the four print("Note: ...") lines
NotesLine == Line("notes", "", "", "", 0)
\* print('Errors Encountered:')
ErrorsHeaderLine == Line("errors", "", "", "", 0)
\* print(this_error)
ErrorLine(e) == Line("error_record", e.name, e.id, e.msg, 0)

\* an external command the script has run, for which subscription, and what
\* came back: whether it was the expected list, and the part of the list the
\* program never stores (the VM count, the clusters)
Call(op, id, kind, n, clusters, text) ==
    [op |-> op, id |-> id, kind |-> kind, n |-> n, clusters |-> clusters,
     text |-> text]

---------------------------------------------------------------------------
(* The program.                                                            *)

Init ==
    /\ pc = "accounts"
    /\ az_account_list = <<>>
    /\ acct_i = 0
    /\ sub_census = ZeroCensus
    /\ aks_counted_flag = FALSE
    /\ az_resources = <<>>
    /\ res_i = 0
    /\ global_totals = ZeroCensus
    /\ error_list = <<>>
    /\ requested_order_bound = FALSE
    /\ stdout = <<>>
    /\ calls = <<>>

\* the account the for loop is at
az_account == az_account_list[acct_i]
subscription_name == az_account.name
subscription_id == az_account.id

\* az_account_list = json.loads(getoutput('az account list ...')): the call is
\* outside every try, so output that is not JSON ends the script with a traceback
FetchAccounts(responses) ==
    /\ pc = "accounts"
    /\ \E resp \in responses :
         /\ calls' = Append(calls, Call("ListEnabledAccounts", "",
                                        resp.kind, 0, <<>>, ""))
         /\ IF resp.kind = "list"
            THEN /\ az_account_list' = resp.accounts
                 /\ pc' = "loop"
            ELSE /\ az_account_list' = az_account_list
                 /\ pc' = "crashed"
    /\ UNCHANGED <<acct_i, sub_census, aks_counted_flag, az_resources, res_i,
                   global_totals, error_list, requested_order_bound, stdout>>

\* a variant whose state check ignores letter case
NextAccountAnyCase ==
    /\ pc = "loop"
    /\ IF acct_i = Len(az_account_list)
       THEN /\ pc' = "grand"
            /\ UNCHANGED <<acct_i, sub_census, aks_counted_flag, stdout>>
       ELSE /\ acct_i' = acct_i + 1
            /\ IF Lower(az_account_list[acct_i + 1].state) # "enabled"
               THEN /\ pc' = "loop"
                    /\ UNCHANGED <<sub_census, aks_counted_flag, stdout>>
               ELSE /\ pc' = "vm"
                    /\ stdout' = Append(stdout,
                          ProcessingLine(az_account_list[acct_i + 1].name,
                                         az_account_list[acct_i + 1].id))
                    /\ sub_census' = ZeroCensus
                    /\ aks_counted_flag' = FALSE
    /\ UNCHANGED <<az_account_list, az_resources, res_i, global_totals,
                   error_list, requested_order_bound, calls>>

\* for az_account in az_account_list: the state check, the header, the reset of
\* sub_census and aks_counted_flag; the loop's end leads to the grand totals
NextAccount ==
    /\ pc = "loop"
    /\ IF acct_i = Len(az_account_list)
       THEN /\ pc' = "grand"
            /\ UNCHANGED <<acct_i, sub_census, aks_counted_flag, stdout>>
       ELSE /\ acct_i' = acct_i + 1
            /\ IF az_account_list[acct_i + 1].state # "Enabled"
               THEN /\ pc' = "loop"
                    /\ UNCHANGED <<sub_census, aks_counted_flag, stdout>>
               ELSE /\ pc' = "vm"
                    /\ stdout' = Append(stdout,
                          ProcessingLine(az_account_list[acct_i + 1].name,
                                         az_account_list[acct_i + 1].id))
                    /\ sub_census' = ZeroCensus
                    /\ aks_counted_flag' = FALSE
    /\ UNCHANGED <<az_account_list, az_resources, res_i, global_totals,
                   error_list, requested_order_bound, calls>>

JqVmError == "jq: error (at <stdin>:1): Cannot index string with string \"id\""

\* getoutput("az vm list ... 2>&1 | jq '.[].id' | wc -l"): one line per VM,
\* counted by wc; az's exit status is not read.  When az fails printing
\* something jq cannot walk, jq's message is captured beside wc's 0; when az
\* fails printing nothing, jq prints nothing and wc's 0 is all there is
VmPipeOutput(resp) ==
    IF resp.kind = "list" THEN ToDecimal(resp.n) \o "\n"
    ELSE IF resp.kind = "silent" THEN "0\n"
    ELSE JqVmError \o "\n0\n"

\* step 1: the VM count, or an error record
ScanVMs(responses) ==
    /\ pc = "vm"
    /\ \E resp \in responses :
         LET az_vm_list_count == Strip(VmPipeOutput(resp))
         IN /\ calls' = Append(calls, Call("ListVirtualMachines", subscription_id,
                                           resp.kind, resp.n, <<>>, ""))
            /\ IF IntParses(az_vm_list_count)
               THEN /\ sub_census' =
                         IF IntValue(az_vm_list_count) > 0
                         THEN [sub_census EXCEPT ![VMs] = IntValue(az_vm_list_count)]
                         ELSE sub_census
                    /\ UNCHANGED <<error_list, stdout>>
               ELSE /\ error_list' = Append(error_list,
                         ErrorRecord(subscription_name, subscription_id, VmListError))
                    /\ stdout' = Append(stdout, VmErrorLine)
                    /\ UNCHANGED sub_census
    /\ pc' = "resources"
    /\ UNCHANGED <<az_account_list, acct_i, aks_counted_flag, az_resources, res_i,
                   global_totals, requested_order_bound>>

\* the category one descriptor that is not a cluster is counted under, "" for
\* none (the `continue` branches and the unmapped types)
CategoryOf(az_resource) ==
    LET resource_type == Lower(az_resource.type)
    IN IF resource_type = sites_type
       THEN (IF az_resource.haskind /\ az_resource.kind # ""
                /\ Contains(Lower(az_resource.kind), function_kind)
             THEN Functions ELSE "")
       ELSE IF resource_type \in {vm_type, synapse_type} THEN ""
       ELSE IF resource_type \in DOMAIN RESOURCE_TO_CATEGORY
       THEN RESOURCE_TO_CATEGORY[resource_type]
       ELSE ""

\* step 2, the fetch: az_resources = json.loads(getoutput('az resource list'))
FetchResources(responses) ==
    /\ pc = "resources"
    /\ \E resp \in responses :
         /\ calls' = Append(calls, Call("ListResources", subscription_id,
                                        resp.kind, 0, <<>>, ""))
         /\ IF resp.kind = "list"
            THEN /\ az_resources' = resp.resources
                 /\ res_i' = 1
                 /\ pc' = IF Len(resp.resources) = 0 THEN "summary" ELSE "scan"
                 /\ UNCHANGED <<error_list, stdout>>
            ELSE /\ error_list' = Append(error_list,
                      ErrorRecord(subscription_name, subscription_id, ResourceListError))
                 /\ stdout' = Append(stdout, ResourceErrorLine)
                 /\ pc' = "summary"
                 /\ UNCHANGED <<az_resources, res_i>>
    /\ UNCHANGED <<az_account_list, acct_i, sub_census, aks_counted_flag,
                   global_totals, requested_order_bound>>

\* whether the turn for this descriptor raises: az_resource['type'].lower() at
\* line 177 (KeyError for a missing key, AttributeError for a value that is no
\* string) or, for a site, az_resource['kind'].lower() at line 193 when the
\* kind is a true value that is no string
ScanRaises(az_resource) ==
    IF az_resource.typeof # "string" THEN TRUE
    ELSE IF Lower(az_resource.type) = sites_type
    THEN az_resource.haskind /\ az_resource.kindof # "string"
    ELSE FALSE

\* step 2, one turn of `for az_resource in az_resources`; the try of line 172
\* covers the loop, so a turn that raises ends the scan in the except branch
\* of line 209 with the counts made so far
ScanResource(responses) ==
    /\ pc = "scan"
    /\ LET az_resource == az_resources[res_i]
           resource_type == Lower(az_resource.type)
           category == CategoryOf(az_resource)
       IN IF ScanRaises(az_resource)
          THEN /\ error_list' = Append(error_list,
                    ErrorRecord(subscription_name, subscription_id,
                                ResourceListError))
               /\ stdout' = Append(stdout, ResourceErrorLine)
               /\ res_i' = res_i
               /\ pc' = "summary"
               /\ UNCHANGED <<calls, sub_census, aks_counted_flag>>
          ELSE /\ IF resource_type = aks_type /\ ~aks_counted_flag
                  THEN \E resp \in responses :
                         LET r == get_configured_aks_node_count(
                                      resp, subscription_id, subscription_name)
                         IN /\ stdout' = Append(stdout, CountingLine)
                            /\ calls' = Append(calls,
                                  Call("ListClusters", subscription_id,
                                       resp.kind, 0, resp.clusters, resp.text))
                            /\ error_list' = error_list \o r.errors
                            /\ sub_census' = [sub_census EXCEPT ![AKS] = r.ret]
                            /\ aks_counted_flag' = TRUE
                  ELSE IF resource_type = aks_type /\ aks_counted_flag
                  THEN UNCHANGED <<stdout, calls, error_list, sub_census,
                                   aks_counted_flag>>
                  ELSE /\ sub_census' =
                            IF category # ""
                            THEN [sub_census EXCEPT
                                    ![category] = sub_census[category] + 1]
                            ELSE sub_census
                       /\ UNCHANGED <<stdout, calls, error_list,
                                      aks_counted_flag>>
               /\ res_i' = res_i + 1
               /\ pc' = IF res_i = Len(az_resources) THEN "summary" ELSE "scan"
    /\ UNCHANGED <<az_account_list, acct_i, az_resources, global_totals,
                   requested_order_bound>>

RECURSIVE CategoryLines(_, _)
\* the lines `for category in requested_order: print(...)` writes
CategoryLines(order, census) ==
    IF Len(order) = 0 THEN <<>>
    ELSE <<CategoryLine(Head(order), census[Head(order)])>>
         \o CategoryLines(Tail(order), census)

RECURSIVE AddCensusAssign(_, _, _)
\* a variant that assigns the count where the program adds it
AddCensusAssign(order, totals, census) ==
    IF Len(order) = 0 THEN totals
    ELSE AddCensusAssign(Tail(order),
                         [totals EXCEPT ![Head(order)] = census[Head(order)]],
                         census)

RECURSIVE AddCensus(_, _, _)
\* global_totals after `for category in requested_order:
\*     global_totals[category] += count`
AddCensus(order, totals, census) ==
    IF Len(order) = 0 THEN totals
    ELSE AddCensus(Tail(order),
                   [totals EXCEPT ![Head(order)] =
                                       totals[Head(order)] + census[Head(order)]],
                   census)

\* step 3: print the subscription's census and update the globals; this is
\* where requested_order is assigned
Summary ==
    /\ pc = "summary"
    /\ requested_order_bound' = TRUE
    /\ stdout' = (Append(stdout, CensusHeaderLine))
                    \o CategoryLines(requested_order, sub_census)
    /\ global_totals' = AddCensus(requested_order, global_totals, sub_census)
    /\ pc' = "loop"
    /\ UNCHANGED <<az_account_list, acct_i, sub_census, aks_counted_flag,
                   az_resources, res_i, error_list, calls>>

RECURSIVE GrandTotalLines(_, _)
GrandTotalLines(order, totals) ==
    IF Len(order) = 0 THEN <<>>
    ELSE <<GrandTotalLine(Head(order), totals[Head(order)])>>
         \o GrandTotalLines(Tail(order), totals)

\* step 4: the grand totals.  requested_order is a name bound only inside the
\* loop body: when no subscription was processed, reading it raises NameError
\* after the header line, and the script ends there
GrandTotal ==
    /\ pc = "grand"
    /\ IF requested_order_bound
       THEN /\ stdout' = (Append(stdout, GrandHeaderLine))
                            \o GrandTotalLines(requested_order, global_totals)
                            \o <<NotesLine>>
            /\ pc' = "errors"
       ELSE /\ stdout' = Append(stdout, GrandHeaderLine)
            /\ pc' = "crashed"
    /\ UNCHANGED <<az_account_list, acct_i, sub_census, aks_counted_flag,
                   az_resources, res_i, global_totals, error_list,
                   requested_order_bound, calls>>

\* if error_list: print the error block
PrintErrors ==
    /\ pc = "errors"
    /\ stdout' = IF Len(error_list) > 0
                 THEN (Append(stdout, ErrorsHeaderLine))
                         \o [k \in 1..Len(error_list) |-> ErrorLine(error_list[k])]
                 ELSE stdout
    /\ pc' = "done"
    /\ UNCHANGED <<az_account_list, acct_i, sub_census, aks_counted_flag,
                   az_resources, res_i, global_totals, error_list,
                   requested_order_bound, calls>>

---------------------------------------------------------------------------
(* The environment's responses.                                            *)

Account(k, state) ==
    [id |-> "sub-" \o ToDecimal(k), name |-> "Subscription " \o ToDecimal(k),
     state |-> state]

AccountStates == {"Enabled", "Disabled", "enabled"}

\* `az account list`: text that is not JSON, or up to MaxAccounts accounts
AccountResponses ==
    {[kind |-> "garbage", accounts |-> <<>>]} \cup
    {[kind |-> "list", accounts |-> [k \in 1..Len(ss) |-> Account(k, ss[k])]] :
        ss \in SeqsUpTo(AccountStates, MaxAccounts)}

\* the ways `az vm list` fails: printing an error ("fail"), or printing
\* nothing ("silent")
VmFailures == {"fail", "silent"}

\* `az vm list`: a failure of one of the given kinds, or a list of n VMs
VmResponses(failures, counts) ==
    {[kind |-> f, n |-> 0] : f \in failures}
    \cup {[kind |-> "list", n |-> n] : n \in counts}

\* an element of the resource list: what its 'type' is ("string", "null" or
\* "absent") and the text of a string type; whether it has a true 'kind'
\* (haskind false: absent, null or empty), what that is ("string" or
\* "number") and the text of a string kind
Descriptor(typeof, type, haskind, kindof, kind) ==
    [typeof |-> typeof, type |-> type, haskind |-> haskind, kindof |-> kindof,
     kind |-> kind]

\* a descriptor as Azure Resource Manager writes it: a string type, and a
\* string kind if any
Resource(type, haskind, kind) == Descriptor("string", type, haskind, "string", kind)

\* {"name": "x"}, {"type": null} and {"type": "Microsoft.Web/sites", "kind": 5}
Untyped == Descriptor("absent", "", FALSE, "string", "")
NullType == Descriptor("null", "", FALSE, "string", "")
SiteKindNumber == Descriptor("string", "Microsoft.Web/sites", TRUE, "number", "")

StorageAccount == Resource("Microsoft.Storage/storageAccounts", TRUE, "StorageV2")
ManagedCluster == Resource("Microsoft.ContainerService/managedClusters", FALSE, "")

RunResources == {StorageAccount, ManagedCluster}

\* lists that hold a descriptor of the run beside one without a type
FaultyLists ==
    {<<d, Untyped>> : d \in RunResources} \cup {<<Untyped, d>> : d \in RunResources}

\* `az resource list`: an error, or up to n descriptors drawn from pool
ResourceResponses(pool, n) ==
    {[kind |-> "fail", resources |-> <<>>]} \cup
    {[kind |-> "list", resources |-> rs] : rs \in SeqsUpTo(pool, n)}

ResourceLists(lists) == {[kind |-> "list", resources |-> rs] : rs \in lists}

ClusterResponse(kind, clusters, text) ==
    [kind |-> kind, clusters |-> clusters, text |-> text]

\* what jq prints for input that is not JSON
JqParseError == "parse error: Invalid numeric literal at line 1, column 6"

Profile(maxCount, count) == [maxCount |-> maxCount, count |-> count]
Cluster(profiles) == [agentPoolProfiles |-> profiles]

\* the clusters of the spec's example: pools {5,3}, {count 2}, {null, 4}
ExampleClusters ==
    <<Cluster(<<Profile(Num(5), Num(3)), Profile(Absent, Num(2))>>),
      Cluster(<<Profile(Null, Num(4))>>)>>

\* `az aks list` in the run: text jq cannot parse, or a list of clusters
RunClusterResponses ==
    {ClusterResponse("text", <<>>, JqParseError),
     ClusterResponse("list", ExampleClusters, "")}

---------------------------------------------------------------------------
(* The run: any account list, small pools per subscription.                *)

SubscriptionSteps(vms, resources, clusters) ==
    \/ NextAccount
    \/ ScanVMs(vms)
    \/ FetchResources(resources)
    \/ ScanResource(clusters)
    \/ Summary
    \/ GrandTotal
    \/ PrintErrors

Next ==
    \/ FetchAccounts(AccountResponses)
    \/ SubscriptionSteps(VmResponses({"fail"}, {MaxVMs}),
                         ResourceResponses(RunResources, MaxResources)
                             \cup ResourceLists(FaultyLists),
                         RunClusterResponses)

Spec == Init /\ [][Next]_vars

---------------------------------------------------------------------------
(* One enabled subscription, every kind of resource descriptor.            *)

\* the state once `az account list` has returned one enabled subscription
InitOne ==
    /\ pc = "loop"
    /\ az_account_list = <<Account(1, "Enabled")>>
    /\ acct_i = 0
    /\ sub_census = ZeroCensus
    /\ aks_counted_flag = FALSE
    /\ az_resources = <<>>
    /\ res_i = 0
    /\ global_totals = ZeroCensus
    /\ error_list = <<>>
    /\ requested_order_bound = FALSE
    /\ stdout = <<>>
    /\ calls = <<Call("ListEnabledAccounts", "", "list", 0, <<>>, "")>>

\* resource types as Azure spells them
AzureTypes ==
    {"Microsoft.Compute/virtualMachines",
     "Microsoft.ContainerService/managedClusters",
     "Microsoft.ContainerInstance/containerGroups",
     "Microsoft.App/containerApps",
     "Microsoft.Storage/storageAccounts",
     "Microsoft.Sql/servers",
     "Microsoft.Sql/managedInstances",
     "Microsoft.DocumentDB/databaseAccounts",
     "Microsoft.Cache/Redis",
     "Microsoft.DBforMySQL/servers",
     "Microsoft.DBforMySQL/flexibleServers",
     "Microsoft.DBforPostgreSQL/serverGroupsv2",
     "Microsoft.DBforPostgreSQL/flexibleServers",
     "Microsoft.DBforPostgreSQL/servers",
     "Microsoft.ContainerRegistry/registries",
     "Microsoft.Synapse/workspaces",
     "MICROSOFT.SYNAPSE/WORKSPACES",
     "MICROSOFT.COMPUTE/VIRTUALMACHINES",
     \* types the table does not hold, two of them extending a key and one a
     \* prefix of a key
     "Microsoft.Network/virtualNetworks",
     "Microsoft.Web/serverFarms",
     "Microsoft.Sql/servers/databases",
     "Microsoft.Storage/storageAccountsX",
     "Microsoft.Storage"}

ScanResources ==
    {Resource(t, FALSE, "") : t \in AzureTypes \cup DOMAIN RESOURCE_TO_CATEGORY}
    \cup {Resource(t, TRUE, k) :
            t \in {"Microsoft.Web/sites", sites_type},
            k \in {"functionapp", "functionapp,linux", "FunctionApp,Linux,Container",
                   "app", "app,linux", "function", ""}}
    \cup {Resource("Microsoft.Web/sites", FALSE, ""),
          Resource("Microsoft.Web/serverFarms", TRUE, "functionapp"),
          Resource("Microsoft.Storage/storageAccounts", TRUE, "functionapp"),
          StorageAccount, Untyped, NullType, SiteKindNumber,
          Descriptor("string", "Microsoft.Storage/storageAccounts", TRUE,
                     "number", "")}

\* longer lists of a few descriptors, two of them raising
FaultyPool == {StorageAccount, ManagedCluster, Untyped, SiteKindNumber}

NextScan ==
    SubscriptionSteps(VmResponses(VmFailures, {0, 1, MaxVMs}),
                      ResourceResponses(ScanResources, MaxScanResources)
                          \cup ResourceResponses(FaultyPool, MaxResources),
                      RunClusterResponses)

SpecScan == InitOne /\ [][NextScan]_vars

---------------------------------------------------------------------------
(* One enabled subscription with clusters, every kind of node-pool profile.*)

MaxCountValues == {Absent, Null, False, Text, Num(5)}
CountValues == {Absent, Null, Text, Num(3)}

Profiles == {Profile(m, c) : m \in MaxCountValues, c \in CountValues}

ClusterLists ==
    {<<>>, ExampleClusters}
    \cup {<<Cluster(ps)>> : ps \in SeqsUpTo(Profiles, MaxPools)}
    \cup {<<Cluster(ps), Cluster(qs)>> : ps, qs \in SeqsUpTo(Profiles, 1)}

\* `az aks list | jq`: a failure of az, jq's message for text it cannot parse,
\* the sum jq prints when a count is negative or fractional, or a list of
\* clusters whose counts are natural numbers
AksClusterResponses ==
    {ClusterResponse("fail", <<>>, "")}
    \cup {ClusterResponse("text", <<>>, t) : t \in {JqParseError, "-1", "2.5"}}
    \cup {ClusterResponse("list", cs, "") : cs \in ClusterLists}

NextAks ==
    SubscriptionSteps(VmResponses(VmFailures, {MaxVMs}),
                      ResourceResponses({ManagedCluster}, MaxScanResources),
                      AksClusterResponses)

SpecAks == InitOne /\ [][NextAks]_vars

---------------------------------------------------------------------------
(* Reading the trace of calls and the printed text.                        *)

\* the calls of one operation made for one subscription
CallsFor(op, id) == {k \in DOMAIN calls : calls[k].op = op /\ calls[k].id = id}

\* the last call of one operation made for one subscription
LastCall(op, id) ==
    calls[CHOOSE k \in CallsFor(op, id) : \A j \in CallsFor(op, id) : j <= k]

\* the error records of one message appended for one subscription
ErrorsFor(id, msg) ==
    {k \in DOMAIN error_list : error_list[k].id = id /\ error_list[k].msg = msg}

AllErrorsFor(id) == {k \in DOMAIN error_list : error_list[k].id = id}

\* the places of the header lines "Processing Account" printed for one subscription
HeadersFor(id) == {k \in DOMAIN stdout : stdout[k].t = "processing" /\ stdout[k].id = id}

Lines(t) == SelectSeq(stdout, LAMBDA l : l.t = t)

\* the counts printed for one category, one per subscription block
PrintedCounts(category) ==
    LET ls == SelectSeq(stdout, LAMBDA l : l.t = "category" /\ l.label = category)
    IN [k \in 1..Len(ls) |-> ls[k].count]

Labels(ls) == [k \in 1..Len(ls) |-> ls[k].label]

EnabledUpTo(n) == {k \in 1..n : az_account_list[k].state = "Enabled"}

IsCluster(az_resource) ==
    az_resource.typeof = "string" /\ Lower(az_resource.type) = aks_type

---------------------------------------------------------------------------
(* C1.  A subscription whose state is not exactly "Enabled" is skipped     *)
(* entirely: no ListVirtualMachines, ListResources or ListClusters call is *)
(* issued for it, no block is printed for it, no error record is appended  *)
(* for it, and the step that passes over it leaves the global totals (and  *)
(* the output, the calls and the error list) as they were.                 *)

C1_NothingForSkipped ==
    \A k \in DOMAIN az_account_list :
        az_account_list[k].state # "Enabled" =>
            /\ \A c \in DOMAIN calls : calls[c].id # az_account_list[k].id
            /\ HeadersFor(az_account_list[k].id) = {}
            /\ AllErrorsFor(az_account_list[k].id) = {}

C1_SkipChangesNothing ==
    (pc = "loop" /\ acct_i < Len(az_account_list)
        /\ az_account_list[acct_i + 1].state # "Enabled")
    => /\ pc' = "loop"
       /\ UNCHANGED <<global_totals, sub_census, stdout, calls, error_list>>

\* C1: a subscription whose state is not exactly "Enabled" gets no call, no
\* block and no error record, and passing over it changes no total
C1_DisabledSkipped == [](C1_NothingForSkipped) /\ [][C1_SkipChangesNothing]_vars

\* a finished run that passed over a subscription in state "enabled" and then
\* processed an enabled one
C1_Witness ==
    /\ pc = "done"
    /\ Len(az_account_list) = 2
    /\ az_account_list[1].state = "enabled"
    /\ az_account_list[2].state = "Enabled"
    /\ global_totals[VMs] = MaxVMs

---------------------------------------------------------------------------
(* C2.  No failure of a provider operation is fatal: whichever of the four *)
(* operations fails, the run does not abort, and once it is past the loop  *)
(* every enabled subscription has its block and the grand-total block is   *)
(* printed.                                                                *)

\* C2: after a failure of any provider operation the run has not aborted, and
\* a finished run has a block per enabled subscription and the grand totals
C2_NoFailureIsFatal ==
    (\E c \in DOMAIN calls : calls[c].kind # "list") =>
        /\ pc # "crashed"
        /\ pc \in {"errors", "done"} =>
              /\ \A k \in EnabledUpTo(Len(az_account_list)) :
                    HeadersFor(az_account_list[k].id) # {}
              /\ Len(Lines("grand_total")) = Len(requested_order)

---------------------------------------------------------------------------
(* C3.  Within one subscription the capacity resolver runs once, at the    *)
(* first cluster-type descriptor, and never again: the number of           *)
(* invocations is 1 if the list holds a descriptor of the cluster type and *)
(* 0 otherwise; the flag is reset for each subscription, so no             *)
(* subscription ever has more than one invocation and each one with a      *)
(* cluster has its own.                                                    *)

\* the current subscription's resource list was fetched and is being, or has
\* been, scanned
ScanUnderWay ==
    /\ pc \in {"scan", "summary"}
    /\ CallsFor("ListResources", subscription_id) # {}
    /\ LastCall("ListResources", subscription_id).kind = "list"

\* the descriptors of the current list the loop is done with: all of them
\* once a scan has run through, those before the one that raised otherwise
Scanned == res_i - 1

\* C3: one resolver invocation per subscription, made at the first cluster
\* descriptor; none for a list without a cluster, one for a list with one;
\* the flag starts false per subscription
C3_ResolverOncePerSubscription ==
    /\ \A k \in DOMAIN az_account_list :
          Cardinality(CallsFor("ListClusters", az_account_list[k].id)) <= 1
    /\ (pc = "scan" /\ ScanUnderWay) =>
          /\ Cardinality(CallsFor("ListClusters", subscription_id))
               = IF \E j \in 1..Scanned : IsCluster(az_resources[j]) THEN 1 ELSE 0
          /\ aks_counted_flag = (\E j \in 1..Scanned : IsCluster(az_resources[j]))
    /\ (pc = "summary" /\ ScanUnderWay) =>
          Cardinality(CallsFor("ListClusters", subscription_id))
            = IF \E j \in DOMAIN az_resources : IsCluster(az_resources[j])
              THEN 1 ELSE 0
    /\ pc = "vm" => ~aks_counted_flag

---------------------------------------------------------------------------
(* C6.  For each of the 7 categories the global total is the sum of that   *)
(* category's count over the subscriptions processed so far, each folded   *)
(* in once: the summary step adds the subscription's count of a category   *)
(* to that category's total and to no other, no other step changes the     *)
(* totals, one block is printed per processed subscription, and every      *)
(* subscription starts from a map that is 0 in every category.             *)

\* the accounts the loop is done with
Completed ==
    IF pc \in {"vm", "resources", "scan", "summary"} THEN acct_i - 1 ELSE acct_i

C6_TotalsAreSumsNow ==
    /\ DOMAIN global_totals = DOMAIN ZeroCensus
    /\ DOMAIN sub_census = DOMAIN ZeroCensus
    /\ \A c \in DOMAIN ZeroCensus : global_totals[c] = SumSeq(PrintedCounts(c))
    /\ Len(Lines("census")) = Cardinality(EnabledUpTo(Completed))
    /\ pc = "vm" => sub_census = ZeroCensus

C6_FoldStep ==
    IF pc = "summary"
    THEN \A c \in DOMAIN ZeroCensus : global_totals'[c] = global_totals[c] + sub_census[c]
    ELSE global_totals' = global_totals

\* C6: per category the global total is the sum of the subscriptions' counts,
\* each folded in once and into its own category; sub_census starts at 0
C6_TotalsAreSums == [](C6_TotalsAreSumsNow) /\ [][C6_FoldStep]_vars

\* two subscriptions folded in: 1 + 2 storage accounts, one cluster list of 11
\* nodes, one VM list of MaxVMs and one that failed
C6_Witness ==
    /\ pc = "done"
    /\ Len(Lines("census")) = 2
    /\ PrintedCounts(Buckets) = <<1, 2>>
    /\ global_totals[Buckets] = 3
    /\ global_totals[AKS] = 11
    /\ global_totals[VMs] = MaxVMs

---------------------------------------------------------------------------
(* C7.  Whatever the account list, also one without an enabled             *)
(* subscription, the grand-total block has the 7 category lines in the     *)
(* canonical order, the order of every per-subscription block.             *)

\* C7: once the grand-total header is printed, its 7 category lines follow in
\* the canonical order, which is also the order of every subscription block
C7_GrandTotalBlockAlways ==
    /\ Len(Lines("grand")) > 0 => Labels(Lines("grand_total")) = requested_order
    /\ \A k \in 1..Len(Lines("category")) :
          Lines("category")[k].label
            = requested_order[((k - 1) % Len(requested_order)) + 1]

---------------------------------------------------------------------------
(* C10.  When the resource list step fails for an enabled subscription     *)
(* (the except branch of line 209 ran, whether the fetch failed or a turn  *)
(* of the loop raised): one error record naming the subscription is appended, *)
(* every category but Virtual Machines is 0 and the VM count of step 1 is  *)
(* kept, the capacity resolver is not invoked, the block is printed with   *)
(* these counts and folded into the totals, and the loop goes on.          *)

ResourcesFailed(id) == ErrorsFor(id, ResourceListError) # {}

\* the VM count step 1 left
VmCountOf(id) ==
    IF LastCall("ListVirtualMachines", id).kind = "list"
    THEN LastCall("ListVirtualMachines", id).n ELSE 0

\* a census header, with its 7 lines, follows the subscription's header line
HasBlock(id) ==
    /\ Cardinality(HeadersFor(id)) = 1
    /\ \E k \in DOMAIN stdout :
          /\ k > (CHOOSE h \in HeadersFor(id) : TRUE)
          /\ stdout[k].t = "census"
          /\ k + Len(requested_order) <= Len(stdout)
          /\ \A j \in ((CHOOSE h \in HeadersFor(id) : TRUE) + 1)..(k - 1) :
                stdout[j].t \notin {"census", "processing"}

\* the 7 lines printed under the census header of one subscription's block
BlockOf(id) ==
    LET h == CHOOSE k \in HeadersFor(id) : TRUE
        c == CHOOSE k \in DOMAIN stdout :
                /\ k > h /\ stdout[k].t = "census"
                /\ \A j \in (h + 1)..(k - 1) : stdout[j].t # "census"
    IN SubSeq(stdout, c + 1, c + Len(requested_order))

C10_FailedNow ==
    /\ (pc = "summary" /\ ResourcesFailed(subscription_id)) =>
          /\ Cardinality(ErrorsFor(subscription_id, ResourceListError)) = 1
          /\ \A e \in ErrorsFor(subscription_id, ResourceListError) :
                error_list[e].name = subscription_name
          /\ \A c \in DOMAIN ZeroCensus \ {VMs} : sub_census[c] = 0
          /\ sub_census[VMs] = VmCountOf(subscription_id)
          /\ CallsFor("ListClusters", subscription_id) = {}
    /\ \A k \in EnabledUpTo(Completed) :
          ResourcesFailed(az_account_list[k].id) =>
             /\ HasBlock(az_account_list[k].id)
             /\ \A i \in 1..Len(requested_order) :
                   /\ BlockOf(az_account_list[k].id)[i].t = "category"
                   /\ BlockOf(az_account_list[k].id)[i].label = requested_order[i]
                   /\ BlockOf(az_account_list[k].id)[i].count
                        = IF requested_order[i] = VMs
                          THEN VmCountOf(az_account_list[k].id) ELSE 0
    /\ (\E c \in DOMAIN calls : calls[c].op = "ListResources") => pc # "crashed"

C10_FailedFoldStep ==
    (pc = "summary" /\ ResourcesFailed(subscription_id)) =>
        /\ global_totals' =
             [global_totals EXCEPT ![VMs] = @ + VmCountOf(subscription_id)]
        /\ pc' = "loop"

\* C10: a failed resource list step appends one error record, leaves every
\* category but Virtual Machines at 0, invokes no resolver, and the block is
\* still printed and folded and the loop goes on
C10_ResourceListFailure == [](C10_FailedNow) /\ [][C10_FailedFoldStep]_vars

---------------------------------------------------------------------------
(* C4.  The subscription's Container Hosts count is the sum, over every    *)
(* node-pool profile of every cluster, of maxCount when it is a number,    *)
(* else of count when it is a number, else of 0 -- also for a profile      *)
(* whose maxCount is present but no number and whose count is a number.    *)

ClaimedContribution(profile) ==
    IF profile.maxCount.t = "number" THEN profile.maxCount.v
    ELSE IF profile.count.t = "number" THEN profile.count.v
    ELSE 0

ClaimedNodeSum(clusters) ==
    LET profiles == Flatten([k \in 1..Len(clusters) |-> clusters[k].agentPoolProfiles])
    IN SumSeq([k \in 1..Len(profiles) |-> ClaimedContribution(profiles[k])])

\* C4: Container Hosts is the sum over the profiles of maxCount if numeric,
\* else count if numeric, else 0
C4_ContainerHostsIsClaimedSum ==
    (/\ pc \in {"scan", "summary"}
     /\ CallsFor("ListClusters", subscription_id) # {}
     /\ LastCall("ListClusters", subscription_id).kind = "list")
    => sub_census[AKS]
         = ClaimedNodeSum(LastCall("ListClusters", subscription_id).clusters)

---------------------------------------------------------------------------
(* C5.  The capacity resolver never raises to its caller, and maps the raw *)
(* result of the pipeline so: decimal digits give that integer and no      *)
(* error record; the empty string and "null" give 0 and no error record;   *)
(* anything else gives 0 and exactly one error record naming the           *)
(* subscription's name and id.  The error list only ever grows.            *)

C5_ResolverStep ==
    (pc = "scan" /\ IsCluster(az_resources[res_i]) /\ ~aks_counted_flag) =>
        LET call == calls'[Len(calls')]
            raw == AksPipeOutput(call)
            text == Strip(raw)
        IN /\ Len(calls') = Len(calls) + 1
           /\ call.op = "ListClusters"
           /\ pc' \in {"scan", "summary"}
           /\ IF IsDigit(text)
              THEN /\ \E n \in 0..99 : ToDecimal(n) = text /\ sub_census'[AKS] = n
                   /\ error_list' = error_list
              ELSE IF text \in {"", "null"}
              THEN /\ sub_census'[AKS] = 0
                   /\ error_list' = error_list
              ELSE /\ sub_census'[AKS] = 0
                   /\ error_list' = Append(error_list,
                         ErrorRecord(subscription_name, subscription_id, AksCountError))

C5_ErrorListGrows ==
    /\ Len(error_list') >= Len(error_list)
    /\ SubSeq(error_list', 1, Len(error_list)) = error_list

\* C5: the resolver returns to its caller; digits give the integer, "" and
\* "null" give 0, both without an error record; any other output gives 0 and
\* one error record naming the subscription; error_list only grows
C5_ResolverMapsRawResult == [][C5_ResolverStep /\ C5_ErrorListGrows]_vars

\* the pipeline printed 2.5: the count is 0 and the one error record names the
\* subscription
C5_Witness ==
    /\ pc = "summary"
    /\ CallsFor("ListClusters", subscription_id) # {}
    /\ LastCall("ListClusters", subscription_id).text = "2.5"
    /\ sub_census[AKS] = 0
    /\ Cardinality(ErrorsFor(subscription_id, AksCountError)) = 1

---------------------------------------------------------------------------
(* C8.  A failure of the VM list appends exactly one error record for the  *)
(* subscription, leaves its Virtual Machines count at 0 and does not keep  *)
(* the resource scan from running for it; when the VM list succeeds the    *)
(* count is the number of VMs returned.                                    *)

\* C8: a failed VM list leaves the VM count 0 with one error record and the
\* resource scan still runs; a VM list that succeeds gives the number of VMs
C8_VmFailureIsLocal ==
    pc \in {"resources", "scan", "summary"} =>
        /\ Cardinality(CallsFor("ListVirtualMachines", subscription_id)) = 1
        /\ IF LastCall("ListVirtualMachines", subscription_id).kind = "list"
           THEN /\ sub_census[VMs] = LastCall("ListVirtualMachines", subscription_id).n
                /\ ErrorsFor(subscription_id, VmListError) = {}
           ELSE /\ sub_census[VMs] = 0
                /\ Cardinality(ErrorsFor(subscription_id, VmListError)) = 1
                /\ \A e \in ErrorsFor(subscription_id, VmListError) :
                      error_list[e].name = subscription_name
        /\ pc \in {"scan", "summary"} =>
              Cardinality(CallsFor("ListResources", subscription_id)) = 1
        /\ (pc = "summary" /\ ScanUnderWay) =>
              \A c \in DOMAIN ZeroCensus \ {VMs, AKS} :
                  sub_census[c] = Cardinality({j \in 1..Scanned :
                                                 CategoryOf(az_resources[j]) = c})

---------------------------------------------------------------------------
(* C9.  What each descriptor of the resource list does to the              *)
(* subscription's count map, by its lower-cased type and its kind: a site  *)
(* whose lower-cased kind contains "functionapp" adds 1 to Serverless      *)
(* Functions, any other site nothing; the VM type and the workspace type   *)
(* nothing; any other type that is a key of the table adds 1 to that key's *)
(* category; any other type nothing, and no error.  Never more than one    *)
(* category changes.                                                       *)

Inc(census, category) == [census EXCEPT ![category] = @ + 1]

HasFunctionKind(az_resource) ==
    /\ az_resource.haskind
    /\ az_resource.kindof = "string"
    /\ Contains(Lower(az_resource.kind), "functionapp")

Changed == {c \in DOMAIN ZeroCensus : sub_census'[c] # sub_census[c]}

\* the turn of a descriptor that has a type to lower-case: every key of the
\* table other than the VM type adds 1
C9_StepAsStated ==
    (pc = "scan" /\ az_resources[res_i].typeof = "string") =>
        LET d == az_resources[res_i]
            t == Lower(d.type)
        IN /\ t = sites_type =>
                sub_census' = IF HasFunctionKind(d) THEN Inc(sub_census, Functions)
                              ELSE sub_census
           /\ t \in {vm_type, synapse_type} => sub_census' = sub_census
           /\ (t \notin {sites_type, vm_type, synapse_type}
                 /\ t \in DOMAIN RESOURCE_TO_CATEGORY) =>
                sub_census' = Inc(sub_census, RESOURCE_TO_CATEGORY[t])
           /\ (t \notin {sites_type, vm_type, synapse_type}
                 /\ t \notin DOMAIN RESOURCE_TO_CATEGORY) =>
                sub_census' = sub_census /\ error_list' = error_list
           /\ Cardinality(Changed) <= 1

\* the category the claim has a descriptor add 1 to, "" for none
ClaimedCategory(d) ==
    IF d.typeof # "string" THEN ""
    ELSE IF Lower(d.type) = sites_type
    THEN (IF HasFunctionKind(d) THEN Functions ELSE "")
    ELSE IF Lower(d.type) \in {vm_type, synapse_type} THEN ""
    ELSE IF Lower(d.type) \in DOMAIN RESOURCE_TO_CATEGORY
    THEN RESOURCE_TO_CATEGORY[Lower(d.type)]
    ELSE ""

\* every descriptor of the list has had its effect once the scan is over
C9_ListAsStated ==
    (pc = "summary" /\ ScanUnderWay) =>
        \A c \in DOMAIN ZeroCensus \ {VMs} :
            sub_census[c] = Cardinality({j \in DOMAIN az_resources :
                                           ClaimedCategory(az_resources[j]) = c})

\* C9: the effect of every descriptor of the list on the count map, fixed by
\* its lower-cased type and its kind: every table key other than the VM type
\* (and the sites and workspace types) adds 1 to its category
C9_EffectAsStated == [](C9_ListAsStated) /\ [][C9_StepAsStated]_vars

=============================================================================
